---- MODULE Spec2Model ----
(***************************************************************************)
(* A model of ViterbiCodec (src/lib/viterbi.cpp): construction of the      *)
(* output table, the convolutional encoder, and the Viterbi decoder        *)
(* (forward pass over branch groups, then traceback), together with the    *)
(* test harness's error injection (src/tests/viterbi_test.cpp).            *)
(*                                                                         *)
(* Bit sequences (bitarr_t) are sequences of logical bit values 0/1.       *)
(* Vectors indexed from 0 in the code are functions on 0..n-1 here, except *)
(* bit sequences, which are TLA+ sequences (element k of the code is       *)
(* element k+1 of the sequence).                                           *)
(***************************************************************************)
EXTENDS Integers, Sequences, FiniteSets, TLC

VARIABLES
    constraint_,    \* ViterbiCodec::constraint_
    polynomials_,   \* ViterbiCodec::polynomials_
    outputs_,       \* ViterbiCodec::outputs_ (function on 0..2^K-1; <<>> before it is built)
    pc,             \* where the caller / the running call is
    op,             \* which call the caller makes first: "Encode" or "Decode"
    input,          \* the caller's bit sequence: the message, or the received bits
    errors,         \* the positions the harness flips in the encoded bits, in turn
    err_i,          \* the harness's error loop index: flips made so far
    enc_i,          \* Encode: loop index i
    enc_state,      \* Encode: local state
    encoded,        \* Encode: local encoded, then the harness's encoded
    bits,           \* Decode: parameter bits
    i,              \* Decode: forward-pass loop index i
    current_bits,   \* Decode: the branch group last handed to UpdatePathMetrics
    path_metrics,   \* Decode: local path_metrics
    trellis,        \* Decode: local trellis (sequence of columns)
    state,          \* Decode: traceback state
    tb_i,           \* Decode: traceback loop index i
    decoded,        \* Decode: local decoded, then the returned value
    calls           \* the calls other threads run on the codec, each with its own locals

vars == <<constraint_, polynomials_, outputs_, pc, op, input, errors, err_i, enc_i,
          enc_state, encoded, bits, i, current_bits, path_metrics, trellis,
          state, tb_i, decoded, calls>>

codec_vars == <<constraint_, polynomials_, outputs_>>
caller_vars == <<op, input, errors>>
encode_vars == <<enc_i, enc_state, encoded>>
decode_vars == <<bits, i, current_bits, path_metrics, trellis, state, tb_i, decoded>>

----------------------------------------------------------------------------
(* Bounds of the model.                                                    *)

MaxConstraint == 3      \* constraint lengths 2..MaxConstraint in Spec
MaxMessage == 3         \* messages of at most this many bits
MaxReceived == 4        \* directly decoded sequences of at most this many bits
MaxDecodeBits == 8       \* directly decoded sequences of at most this many bits in SpecDecode
MaxTestMessage == 1     \* every message of at most this many bits in SpecTests
MaxErrorMessage == 7    \* messages of at most this many bits in SpecSingleError
MaxCallers == 3         \* at most this many concurrent calls in SpecConcurrent

----------------------------------------------------------------------------
(* Integer bit operations of C++ on non-negative ints.                     *)

IntMax == 2147483647

ShiftLeft(x, n) == x * (2 ^ n)

ShiftRight(x, n) == x \div (2 ^ n)

RECURSIVE BitAnd(_, _)
BitAnd(x, y) ==
    IF x = 0 \/ y = 0 THEN 0
    ELSE (x % 2) * (y % 2) + 2 * BitAnd(x \div 2, y \div 2)

RECURSIVE BitOr(_, _)
BitOr(x, y) ==
    IF x = 0 THEN y
    ELSE IF y = 0 THEN x
    ELSE (IF x % 2 = 1 \/ y % 2 = 1 THEN 1 ELSE 0) + 2 * BitOr(x \div 2, y \div 2)

BitXor1(a, b) == IF a = b THEN 0 ELSE 1

----------------------------------------------------------------------------
(* Pure helpers of the codec.                                              *)

HammingDistance(x, y) == Cardinality({k \in 1..Len(x) : x[k] # y[k]})

RECURSIVE ReverseBitsLoop(_, _, _)
ReverseBitsLoop(num_bits, in, output) ==
    IF num_bits > 0
    THEN ReverseBitsLoop(num_bits - 1, in \div 2, 2 * output + (in % 2))
    ELSE output

\* Mutant: the polynomial is used without reversing its bits.
ReverseBitsOmitted(num_bits, in) == in

ReverseBits(num_bits, in) == ReverseBitsLoop(num_bits, in, 0)

num_parity_bits == Len(polynomials_)

NumStates == ShiftLeft(1, constraint_ - 1)

\* Mutant: the input bit is shifted to bit K-1 (as in Output) instead of K-2.
NextStateShiftWide(current_state, in) ==
    BitOr(ShiftRight(current_state, 1), ShiftLeft(in, constraint_ - 1))

NextState(current_state, in) ==
    BitOr(ShiftRight(current_state, 1), ShiftLeft(in, constraint_ - 2))

Output(current_state, in) ==
    outputs_[BitOr(current_state, ShiftLeft(in, constraint_ - 1))]

\* The inner loop of InitializeOutputs, k iterations left: the low bits of
\* input and polynomial are ANDed (a product of bits) and XORed into output.
RECURSIVE OutputBitLoop(_, _, _, _)
OutputBitLoop(k, polynomial, in, output) ==
    IF k > 0
    THEN OutputBitLoop(k - 1, polynomial \div 2, in \div 2,
                       BitXor1(output, (in % 2) * (polynomial % 2)))
    ELSE output

InitializeOutputs(constraint, polynomials) ==
    LET reversed == [j \in 1..Len(polynomials) |-> ReverseBits(constraint, polynomials[j])]
    IN  [idx \in 0..(ShiftLeft(1, constraint) - 1) |->
            [j \in 1..Len(polynomials) |-> OutputBitLoop(constraint, reversed[j], idx, 0)]]

\* Mutant: the width assertion is off by one (<= for <).
ValidArgumentsWide(constraint, polynomials) ==
    /\ Len(polynomials) # 0
    /\ \A j \in 1..Len(polynomials) :
          /\ polynomials[j] > 0
          /\ polynomials[j] <= 2 ^ constraint

\* The constructor's three assertions.
ValidArguments(constraint, polynomials) ==
    /\ Len(polynomials) # 0
    /\ \A j \in 1..Len(polynomials) :
          /\ polynomials[j] > 0
          /\ polynomials[j] < ShiftLeft(1, constraint)

\* The two predecessor states PathMetric computes for a target state
\* (lines 108-110).
SourceStates(st) ==
    LET s == ShiftLeft(BitAnd(st, ShiftLeft(1, constraint_ - 2) - 1), 1)
    IN  <<BitOr(s, 0), BitOr(s, 1)>>

\* The index Output reads outputs_ at (line 58).
OutputIndex(current_state, in) == BitOr(current_state, ShiftLeft(in, constraint_ - 1))

\* Mutant: the expected output is looked up for input bit 0 whatever the target.
BranchMetricInputZero(b, source_state, target_state) ==
    HammingDistance(b, Output(source_state, 0))

BranchMetric(b, source_state, target_state) ==
    HammingDistance(b, Output(source_state, ShiftRight(target_state, constraint_ - 2)))

\* Mutant: the comparison is reversed, so the larger candidate survives.
PathMetricKeepsLarger(b, prev_path_metrics, st) ==
    LET s == ShiftLeft(BitAnd(st, ShiftLeft(1, constraint_ - 2) - 1), 1)
        source_state1 == BitOr(s, 0)
        source_state2 == BitOr(s, 1)
        pm1 == IF prev_path_metrics[source_state1] < IntMax
               THEN prev_path_metrics[source_state1] + BranchMetric(b, source_state1, st)
               ELSE prev_path_metrics[source_state1]
        pm2 == IF prev_path_metrics[source_state2] < IntMax
               THEN prev_path_metrics[source_state2] + BranchMetric(b, source_state2, st)
               ELSE prev_path_metrics[source_state2]
    IN  IF pm1 >= pm2 THEN <<pm1, source_state1>> ELSE <<pm2, source_state2>>

\* x + y for non-negative x and y as a 32-bit int holds it: a sum above
\* INT_MAX wraps around to x + y - 2^32.
AddWrapped(x, y) ==
    IF x > IntMax - y THEN (((x - IntMax) + (y - 1)) - IntMax) - 1 ELSE x + y

\* Mutant: no guard against the sentinel; the branch metric is added to
\* INT_MAX as well and the sum wraps around.
PathMetricUnguarded(b, prev_path_metrics, st) ==
    LET s == ShiftLeft(BitAnd(st, ShiftLeft(1, constraint_ - 2) - 1), 1)
        source_state1 == BitOr(s, 0)
        source_state2 == BitOr(s, 1)
        pm1 == AddWrapped(prev_path_metrics[source_state1], BranchMetric(b, source_state1, st))
        pm2 == AddWrapped(prev_path_metrics[source_state2], BranchMetric(b, source_state2, st))
    IN  IF pm1 <= pm2 THEN <<pm1, source_state1>> ELSE <<pm2, source_state2>>

\* Mutant: the comparison is strict, so a tie goes to source_state2.
PathMetricTieOdd(b, prev_path_metrics, st) ==
    LET s == ShiftLeft(BitAnd(st, ShiftLeft(1, constraint_ - 2) - 1), 1)
        source_state1 == BitOr(s, 0)
        source_state2 == BitOr(s, 1)
        pm1 == IF prev_path_metrics[source_state1] < IntMax
               THEN prev_path_metrics[source_state1] + BranchMetric(b, source_state1, st)
               ELSE prev_path_metrics[source_state1]
        pm2 == IF prev_path_metrics[source_state2] < IntMax
               THEN prev_path_metrics[source_state2] + BranchMetric(b, source_state2, st)
               ELSE prev_path_metrics[source_state2]
    IN  IF pm1 < pm2 THEN <<pm1, source_state1>> ELSE <<pm2, source_state2>>

\* Mutant: the branch metric is subtracted from the predecessor's metric.
PathMetricSubtracts(b, prev_path_metrics, st) ==
    LET s == ShiftLeft(BitAnd(st, ShiftLeft(1, constraint_ - 2) - 1), 1)
        source_state1 == BitOr(s, 0)
        source_state2 == BitOr(s, 1)
        pm1 == IF prev_path_metrics[source_state1] < IntMax
               THEN prev_path_metrics[source_state1] - BranchMetric(b, source_state1, st)
               ELSE prev_path_metrics[source_state1]
        pm2 == IF prev_path_metrics[source_state2] < IntMax
               THEN prev_path_metrics[source_state2] - BranchMetric(b, source_state2, st)
               ELSE prev_path_metrics[source_state2]
    IN  IF pm1 <= pm2 THEN <<pm1, source_state1>> ELSE <<pm2, source_state2>>

\* Mutant: the masked target state is used as the even predecessor unshifted.
PathMetricSourceUnshifted(b, prev_path_metrics, st) ==
    LET s == BitAnd(st, ShiftLeft(1, constraint_ - 2) - 1)
        source_state1 == BitOr(s, 0)
        source_state2 == BitOr(s, 1)
        pm1 == IF prev_path_metrics[source_state1] < IntMax
               THEN prev_path_metrics[source_state1] + BranchMetric(b, source_state1, st)
               ELSE prev_path_metrics[source_state1]
        pm2 == IF prev_path_metrics[source_state2] < IntMax
               THEN prev_path_metrics[source_state2] + BranchMetric(b, source_state2, st)
               ELSE prev_path_metrics[source_state2]
    IN  IF pm1 <= pm2 THEN <<pm1, source_state1>> ELSE <<pm2, source_state2>>

\* <<metric, predecessor>> of one target state.
PathMetric(b, prev_path_metrics, st) ==
    LET s == ShiftLeft(BitAnd(st, ShiftLeft(1, constraint_ - 2) - 1), 1)
        source_state1 == BitOr(s, 0)
        source_state2 == BitOr(s, 1)
        pm1 == IF prev_path_metrics[source_state1] < IntMax
               THEN prev_path_metrics[source_state1] + BranchMetric(b, source_state1, st)
               ELSE prev_path_metrics[source_state1]
        pm2 == IF prev_path_metrics[source_state2] < IntMax
               THEN prev_path_metrics[source_state2] + BranchMetric(b, source_state2, st)
               ELSE prev_path_metrics[source_state2]
    IN  IF pm1 <= pm2 THEN <<pm1, source_state1>> ELSE <<pm2, source_state2>>

\* The new metric vector and the new trellis column.
UpdatePathMetrics(b, prev_path_metrics) ==
    LET p == [s \in DOMAIN prev_path_metrics |-> PathMetric(b, prev_path_metrics, s)]
    IN  [metrics |-> [s \in DOMAIN prev_path_metrics |-> p[s][1]],
         column  |-> [s \in 0..(NumStates - 1) |-> p[s][2]]]

\* Mutant: traceback always starts from state 0 (no search for the minimum).
MinElementIsFront(v) == 0

\* Mutant: the scan keeps the last position holding the least value.
MinElementIsLast(v) ==
    LET least == CHOOSE m \in {v[s] : s \in DOMAIN v} : \A w \in {v[s] : s \in DOMAIN v} : m <= w
    IN  CHOOSE s \in DOMAIN v : v[s] = least /\ \A r \in DOMAIN v : r > s => v[r] # least

\* std::min_element: the first position holding the least value.
MinElement(v) ==
    LET least == CHOOSE m \in {v[s] : s \in DOMAIN v} : \A w \in {v[s] : s \in DOMAIN v} : m <= w
    IN  CHOOSE s \in DOMAIN v : v[s] = least /\ \A r \in 0..(s - 1) : v[r] # least

\* Mutant: the decoded bits are returned in traceback order.
ReverseOmitted(s) == s

Reverse(s) == [k \in 1..Len(s) |-> s[Len(s) + 1 - k]]

Zeros(n) == [k \in 1..n |-> 0]

----------------------------------------------------------------------------
(* What constructing current_bits from [begin+i, begin+i+n) can yield.     *)
(* Inside the buffer it is the n bits from position i.  When fewer than n  *)
(* bits remain, the range runs past bits.end(): the read is undefined, and *)
(* a build either faults or copies whatever lies behind the buffer.        *)

Fault == [ok |-> FALSE, group |-> <<>>]

Read(g) == [ok |-> TRUE, group |-> g]

Garbage == {0, 1, 2}    \* a byte behind the buffer: 0, 1, or any other value (2)

GroupReads(b, pos, n) ==
    IF pos + n <= Len(b)
    THEN {Read(SubSeq(b, pos + 1, pos + n))}
    ELSE {Read(SubSeq(b, pos + 1, Len(b)) \o g) : g \in [1..(pos + n - Len(b)) -> Garbage]}
         \cup {Fault}

\* Lines 153-156: a group shorter than n is resized with zeros.
PadGroup(g, n) == IF Len(g) < n THEN g \o Zeros(n - Len(g)) ELSE g

----------------------------------------------------------------------------
(* Inputs.                                                                 *)

BitSeqs(n) == UNION {[1..k -> {0, 1}] : k \in 0..n}

SeqsUpTo(S, n) == UNION {[1..k -> S] : k \in 0..n}

Scenario(K, p, o, in, e) ==
    [constraint |-> K, polynomials |-> p, op |-> o, input |-> in, errors |-> e]

\* The polynomial lists tried for constraint K: every list of at most two
\* polynomials over -1..2^K (-1, 0 and 2^K are rejected by the constructor).
PolynomialLists(K) == SeqsUpTo((-1)..(2 ^ K), 2)

\* The calls made on a codec: a direct Decode of any received sequence, or
\* Encode of any message, then no error or one flipped bit, then Decode.
CallsOn(K, p) ==
    {Scenario(K, p, "Decode", b, <<>>) : b \in BitSeqs(MaxReceived)}
    \cup
    UNION {{Scenario(K, p, "Encode", m, e) : e \in SeqsUpTo(0..(Len(m) * Len(p) - 1), 1)} :
           m \in BitSeqs(MaxMessage)}

----------------------------------------------------------------------------
(* The state machine.                                                      *)

\* The state when the constructor's member initialisers have run, before its
\* assertions, with the calls the caller is going to make.
StartCalls(sc, cs) ==
    /\ constraint_ = sc.constraint
    /\ polynomials_ = sc.polynomials
    /\ outputs_ = <<>>
    /\ pc = "Construct"
    /\ op = sc.op
    /\ input = sc.input
    /\ errors = sc.errors
    /\ err_i = 0
    /\ enc_i = 0
    /\ enc_state = 0
    /\ encoded = <<>>
    /\ bits = <<>>
    /\ i = 0
    /\ current_bits = <<>>
    /\ path_metrics = <<>>
    /\ trellis = <<>>
    /\ state = 0
    /\ tb_i = 0
    /\ decoded = <<>>
    /\ calls = cs

\* The same with a single caller: no other thread calls the codec.
Start(sc) == StartCalls(sc, <<>>)

\* Every constraint 2..MaxConstraint with every polynomial list; a rejected
\* construction is followed by no call.
Init ==
    \E K \in 2..MaxConstraint : \E p \in PolynomialLists(K) :
        IF ValidArguments(K, p)
        THEN \E sc \in CallsOn(K, p) : Start(sc)
        ELSE Start(Scenario(K, p, "Decode", <<>>, <<>>))

\* ViterbiCodec::ViterbiCodec: the assertions, then InitializeOutputs.
Construct ==
    /\ pc = "Construct"
    /\ IF ValidArguments(constraint_, polynomials_)
       THEN /\ outputs_' = InitializeOutputs(constraint_, polynomials_)
            /\ pc' = "Idle"
       ELSE /\ outputs_' = outputs_
            /\ pc' = "Aborted"
    /\ UNCHANGED <<constraint_, polynomials_, caller_vars, err_i, calls, encode_vars, decode_vars>>

\* ViterbiCodec::Encode, entry: encoded is empty, state = 0.
EncodeCall ==
    /\ pc = "Idle"
    /\ op = "Encode"
    /\ enc_i' = 0
    /\ enc_state' = 0
    /\ encoded' = <<>>
    /\ pc' = "Encode"
    /\ UNCHANGED <<codec_vars, caller_vars, err_i, calls, decode_vars>>

\* One iteration of Encode's loop.
EncodeStep ==
    /\ pc = "Encode"
    /\ enc_i < Len(input)
    /\ encoded' = encoded \o Output(enc_state, input[enc_i + 1])
    /\ enc_state' = NextState(enc_state, input[enc_i + 1])
    /\ enc_i' = enc_i + 1
    /\ UNCHANGED <<codec_vars, pc, caller_vars, err_i, calls, decode_vars>>

\* Encode returns encoded to the harness.
EncodeReturn ==
    /\ pc = "Encode"
    /\ enc_i >= Len(input)
    /\ pc' = "Channel"
    /\ UNCHANGED <<codec_vars, caller_vars, err_i, calls, encode_vars, decode_vars>>

FlipBit(b) == IF b = 0 THEN 1 ELSE 0

\* The harness flips one encoded bit (viterbi_test.cpp, "add errors").
Flip ==
    /\ pc = "Channel"
    /\ err_i < Len(errors)
    /\ encoded' = [encoded EXCEPT ![errors[err_i + 1] + 1] = FlipBit(@)]
    /\ err_i' = err_i + 1
    /\ UNCHANGED <<codec_vars, pc, caller_vars, calls, enc_i, enc_state, decode_vars>>

\* ViterbiCodec::Decode, entry: empty trellis, metrics all INT_MAX but state 0.
DecodeCall ==
    /\ pc \in {"Idle", "Channel"}
    /\ pc = "Idle" => op = "Decode"
    /\ pc = "Channel" => err_i >= Len(errors)
    /\ bits' = IF pc = "Idle" THEN input ELSE encoded
    /\ trellis' = <<>>
    /\ path_metrics' = [s \in 0..(NumStates - 1) |-> IF s = 0 THEN 0 ELSE IntMax]
    /\ i' = 0
    /\ pc' = "Forward"
    /\ UNCHANGED <<codec_vars, caller_vars, err_i, calls, encode_vars, current_bits, state,
                   tb_i, decoded>>

\* One iteration of the forward loop: extract the group, pad it, update.
DecodeGroup ==
    /\ pc = "Forward"
    /\ i < Len(bits)
    /\ \E read \in GroupReads(bits, i, num_parity_bits) :
          IF ~read.ok
          THEN /\ pc' = "Crashed"
               /\ UNCHANGED <<i, current_bits, path_metrics, trellis>>
          ELSE LET group == PadGroup(read.group, num_parity_bits)
                   u == UpdatePathMetrics(group, path_metrics)
               IN  /\ current_bits' = group
                   /\ path_metrics' = u.metrics
                   /\ trellis' = Append(trellis, u.column)
                   /\ i' = i + num_parity_bits
                   /\ pc' = pc
    /\ UNCHANGED <<codec_vars, caller_vars, err_i, calls, encode_vars, bits, state, tb_i, decoded>>

\* After the forward loop: pick the best final state.
TracebackStart ==
    /\ pc = "Forward"
    /\ i >= Len(bits)
    /\ decoded' = <<>>
    /\ state' = MinElement(path_metrics)
    /\ tb_i' = Len(trellis) - 1
    /\ pc' = "Traceback"
    /\ UNCHANGED <<codec_vars, caller_vars, err_i, calls, encode_vars, bits, i, current_bits,
                   path_metrics, trellis>>

\* One iteration of the traceback loop.
TracebackStep ==
    /\ pc = "Traceback"
    /\ tb_i >= 0
    /\ decoded' = Append(decoded, ShiftRight(state, constraint_ - 2))
    /\ state' = trellis[tb_i + 1][state]
    /\ tb_i' = tb_i - 1
    /\ UNCHANGED <<codec_vars, pc, caller_vars, err_i, calls, encode_vars, bits, i, current_bits,
                   path_metrics, trellis>>

\* std::reverse, return decoded.
DecodeReturn ==
    /\ pc = "Traceback"
    /\ tb_i < 0
    /\ decoded' = Reverse(decoded)
    /\ pc' = "Done"
    /\ UNCHANGED <<codec_vars, caller_vars, err_i, calls, encode_vars, bits, i, current_bits,
                   path_metrics, trellis, state, tb_i>>

Next ==
    \/ Construct
    \/ EncodeCall
    \/ EncodeStep
    \/ EncodeReturn
    \/ Flip
    \/ DecodeCall
    \/ DecodeGroup
    \/ TracebackStart
    \/ TracebackStep
    \/ DecodeReturn

Spec == Init /\ [][Next]_vars

\* A few codecs of constraint 2, 3 and 4 with 1, 2 and 3 polynomials, each
\* decoding every received sequence of at most MaxDecodeBits bits, and
\* encoding every message with no error or one flipped bit.
DecodeCodecs == {
    [constraint |-> 2, polynomials |-> <<3, 1>>],
    [constraint |-> 3, polynomials |-> <<5>>],
    [constraint |-> 3, polynomials |-> <<7, 5>>],
    [constraint |-> 3, polynomials |-> <<6, 5>>],
    [constraint |-> 3, polynomials |-> <<7, 5, 3>>],
    [constraint |-> 4, polynomials |-> <<13>>],
    [constraint |-> 4, polynomials |-> <<15, 11>>] }

DecodeScenarios ==
    {Scenario(c.constraint, c.polynomials, "Decode", b, <<>>) :
        c \in DecodeCodecs, b \in BitSeqs(MaxDecodeBits)}
    \cup
    UNION {{Scenario(c.constraint, c.polynomials, "Encode", m, e) :
                e \in SeqsUpTo(0..(Len(m) * Len(c.polynomials) - 1), 1)} :
           c \in DecodeCodecs, m \in BitSeqs(MaxMessage)}

InitDecode == \E sc \in DecodeScenarios : Start(sc)

SpecDecode == InitDecode /\ [][Next]_vars

\* The codecs the tests construct (viterbi_test.cpp).
Poly_7x5 == [constraint |-> 3, polynomials |-> <<7, 5>>]
Poly_7x6 == [constraint |-> 3, polynomials |-> <<7, 6>>]
Poly_6x5 == [constraint |-> 3, polynomials |-> <<6, 5>>]
Voyager == [constraint |-> 7, polynomials |-> <<109, 79>>]
LTE == [constraint |-> 7, polynomials |-> <<91, 117, 121>>]
CDMA_2000 == [constraint |-> 9, polynomials |-> <<501, 441, 331, 315>>]
Cassini == [constraint |-> 15,
            polynomials |-> <<15, 17817, 20133, 23879, 30451, 32439, 26975>>]

\* The codecs TestViterbiCodecAutomatic is run on.
AutomaticCodecs == {Poly_7x5, Poly_6x5, Voyager, LTE, CDMA_2000, Cassini}

\* The received strings the tests decode directly, with the result they expect.
DecodeVectors == {
    [codec |-> Poly_7x5, expected |-> <<0,1,0,1,1,1,0,0,1,0,1,0,0,0,1>>,
     received |-> <<0,0,1,1,1,0,0,0,0,1,1,0,0,1,1,1,1,1,1,0,0,0,1,0,1,1,0,0,1,1,1,0,1,1>>],
    [codec |-> Poly_7x5, expected |-> <<0,1,0,1,1,1,0,0,1,0,1,0,0,0,1>>,
     received |-> <<0,0,1,1,1,0,0,0,0,1,1,0,0,1,1,1,1,1,0,0,0,0,1,0,1,1,0,0,1,1,1,0,1,1>>],
    [codec |-> Poly_7x6, expected |-> <<1,0,1,1,0,0>>,
     received |-> <<1,0,1,1,0,1,0,1,0,0,1,1,0,0,0,0>>],
    [codec |-> Poly_6x5, expected |-> <<1,0,0,1,1,0,1>>,
     received |-> <<0,1,1,0,1,1,0,1,1,1,0,1,1,0,1,0,1,1>>],
    [codec |-> Poly_6x5, expected |-> <<1,0,0,1,1,0,1>>,
     received |-> <<1,1,1,0,1,1,0,1,1,1,0,0,1,0,1,0,1,1>>],
    [codec |-> LTE, expected |-> <<1,0,1,1,0,1,1,1>>,
     received |-> <<1,1,1,1,0,0,1,0,1,1,1,0,0,0,1,0,1,1,1,1,0,1,0,1,1,1,1,1,1,1,0,0,1,0,1,1,1,0,
                    0,1,1,1>>],
    [codec |-> LTE, expected |-> <<1,0,1,1,0,1,1,1>>,
     received |-> <<1,0,0,1,0,0,1,0,1,1,1,0,0,0,1,0,1,1,1,1,0,1,0,1,1,1,0,1,1,1,0,0,1,0,1,1,1,0,
                    0,1,1,0>>] }

\* The same error tests as Encode of the message with its K-1 zero flush bits,
\* then the flips: the messages, and the positions flipped.
FlushedVectors == {
    [codec |-> Poly_7x5, message |-> <<0,1,0,1,1,1,0,0,1,0,1,0,0,0,1>>, errors |-> <<18>>],
    [codec |-> Poly_6x5, message |-> <<1,0,0,1,1,0,1>>, errors |-> <<0, 11>>],
    [codec |-> LTE, message |-> <<1,0,1,1,0,1,1,1>>, errors |-> <<1, 2, 26, 41>>] }

\* Messages of the length TestViterbiCodecAutomatic starts with (8 bits).
AutomaticMessages == {<<1, 0, 1, 1, 0, 1, 1, 1>>, <<0, 1, 1, 0, 1, 0, 0, 1>>}

TestScenarios ==
    {Scenario(v.codec.constraint, v.codec.polynomials, "Decode", v.received, <<>>) :
        v \in DecodeVectors}
    \cup
    {Scenario(v.codec.constraint, v.codec.polynomials, "Encode",
              v.message \o Zeros(v.codec.constraint - 1), v.errors) : v \in FlushedVectors}
    \cup
    {Scenario(c.constraint, c.polynomials, "Encode", m, <<>>) :
        c \in AutomaticCodecs, m \in BitSeqs(MaxTestMessage) \cup AutomaticMessages}

InitTests == \E sc \in TestScenarios : Start(sc)

SpecTests == InitTests /\ [][Next]_vars

\* TEST(Viterbi, Voyager_err): a 32-bit message is encoded, 4 positions are
\* drawn (repeats allowed) and flipped in turn, and the result is decoded.
VoyagerMessageBits == 32

VoyagerErrors == 4

\* Two of the 32-bit messages, one ending in 1 and one ending in 0.
VoyagerMessages == {
    <<1, 0, 1, 0, 0, 0, 1, 0, 0, 0, 0, 1, 1, 0, 0, 0, 1, 0, 0, 0, 0, 1, 0, 0, 0, 0, 1, 1, 0, 0, 1, 1>>,
    <<0, 0, 0, 1, 0, 0, 0, 0, 1, 1, 1, 1, 1, 1, 1, 0, 0, 0, 0, 1, 1, 1, 1, 1, 0, 0, 1, 0, 1, 0, 1, 0>> }

\* The positions the errors are drawn from here: the first bit and the last
\* two branch groups of the 64 encoded bits.
VoyagerErrorPositions == {0, 60, 62, 63}

VoyagerScenarios ==
    {Scenario(Voyager.constraint, Voyager.polynomials, "Encode", m, e) :
        m \in {v \in VoyagerMessages : Len(v) = VoyagerMessageBits},
        e \in [1..VoyagerErrors -> VoyagerErrorPositions]}

InitVoyager == \E sc \in VoyagerScenarios : Start(sc)

SpecVoyager == InitVoyager /\ [][Next]_vars

\* The codec of constraint 3 with polynomials {7, 5}: every message, encoded,
\* with at most one bit flipped, decoded.
SingleErrorScenarios ==
    UNION {{Scenario(3, <<7, 5>>, "Encode", m, e) : e \in SeqsUpTo(0..(Len(m) * 2 - 1), 1)} :
           m \in BitSeqs(MaxErrorMessage)}

InitSingleError == \E sc \in SingleErrorScenarios : Start(sc)

SpecSingleError == InitSingleError /\ [][Next]_vars

\* The received string TEST(Viterbi, Poly_7x5_err) decodes, without the four
\* bits of its last two groups, and the message it expects.
Poly_7x5_Received ==
    <<0,0,1,1,1,0,0,0,0,1,1,0,0,1,1,1,1,1,1,0,0,0,1,0,1,1,0,0,1,1>>

Poly_7x5_Message == <<0,1,0,1,1,1,0,0,1,0,1,0,0,0,1>>

\* The string with the bit in the 1-based position k flipped.
FlippedAt(b, k) == [b EXCEPT ![k] = FlipBit(@)]

\* Decode of the string as it is and with each single bit flipped, and Encode
\* of the message followed by at most one flip and Decode.
Poly_7x5_Scenarios ==
    {Scenario(Poly_7x5.constraint, Poly_7x5.polynomials, "Decode", b, <<>>) :
        b \in {Poly_7x5_Received}
               \cup {FlippedAt(Poly_7x5_Received, k) : k \in 1..Len(Poly_7x5_Received)}}
    \cup
    {Scenario(Poly_7x5.constraint, Poly_7x5.polynomials, "Encode", Poly_7x5_Message, e) :
        e \in SeqsUpTo(0..(Len(Poly_7x5_Received) - 1), 1)}

InitPoly_7x5 == \E sc \in Poly_7x5_Scenarios : Start(sc)

SpecPoly_7x5 == InitPoly_7x5 /\ [][Next]_vars

----------------------------------------------------------------------------
(* Concurrent callers.  Encode and Decode are const member functions: a    *)
(* call reads constraint_, polynomials_ and outputs_ of the shared codec   *)
(* and keeps everything else in locals of its own.  calls[c] holds the     *)
(* argument and the locals of the call thread c makes; the threads take    *)
(* their steps in any order.                                               *)

\* A call that has not started: op and argument, locals as declared.
Call(o, in) ==
    [op |-> o, input |-> in, pc |-> "Ready", i |-> 0, state |-> 0, encoded |-> <<>>,
     current_bits |-> <<>>, path_metrics |-> <<>>, trellis |-> <<>>, decoded |-> <<>>]

\* Encode, entry (lines 62-63).
CallEncode(c) ==
    /\ pc = "Idle"
    /\ calls[c].pc = "Ready"
    /\ calls[c].op = "Encode"
    /\ calls' = [calls EXCEPT ![c].pc = "Encode", ![c].encoded = <<>>, ![c].state = 0,
                              ![c].i = 0]
    /\ UNCHANGED <<codec_vars, pc, caller_vars, err_i, encode_vars, decode_vars>>

\* One iteration of Encode's loop (lines 66-70).
CallEncodeStep(c) ==
    /\ calls[c].pc = "Encode"
    /\ calls[c].i < Len(calls[c].input)
    /\ LET in == calls[c].input[calls[c].i + 1]
       IN  calls' = [calls EXCEPT ![c].encoded = @ \o Output(calls[c].state, in),
                                 ![c].state = NextState(@, in),
                                 ![c].i = @ + 1]
    /\ UNCHANGED <<codec_vars, pc, caller_vars, err_i, encode_vars, decode_vars>>

\* Encode returns (line 72).
CallEncodeReturn(c) ==
    /\ calls[c].pc = "Encode"
    /\ calls[c].i >= Len(calls[c].input)
    /\ calls' = [calls EXCEPT ![c].pc = "Done"]
    /\ UNCHANGED <<codec_vars, pc, caller_vars, err_i, encode_vars, decode_vars>>

\* Decode, entry (lines 145-148).
CallDecode(c) ==
    /\ pc = "Idle"
    /\ calls[c].pc = "Ready"
    /\ calls[c].op = "Decode"
    /\ calls' = [calls EXCEPT
                    ![c].pc = "Forward",
                    ![c].trellis = <<>>,
                    ![c].path_metrics =
                        [s \in 0..(NumStates - 1) |-> IF s = 0 THEN 0 ELSE IntMax],
                    ![c].i = 0]
    /\ UNCHANGED <<codec_vars, pc, caller_vars, err_i, encode_vars, decode_vars>>

\* One iteration of Decode's forward loop (lines 149-158).
CallDecodeGroup(c) ==
    /\ calls[c].pc = "Forward"
    /\ calls[c].i < Len(calls[c].input)
    /\ \E read \in GroupReads(calls[c].input, calls[c].i, num_parity_bits) :
          IF ~read.ok
          THEN calls' = [calls EXCEPT ![c].pc = "Crashed"]
          ELSE LET group == PadGroup(read.group, num_parity_bits)
                   u == UpdatePathMetrics(group, calls[c].path_metrics)
               IN  calls' = [calls EXCEPT ![c].current_bits = group,
                                         ![c].path_metrics = u.metrics,
                                         ![c].trellis = Append(@, u.column),
                                         ![c].i = @ + num_parity_bits]
    /\ UNCHANGED <<codec_vars, pc, caller_vars, err_i, encode_vars, decode_vars>>

\* After the forward loop (lines 161-164).
CallTracebackStart(c) ==
    /\ calls[c].pc = "Forward"
    /\ calls[c].i >= Len(calls[c].input)
    /\ calls' = [calls EXCEPT ![c].pc = "Traceback",
                              ![c].decoded = <<>>,
                              ![c].state = MinElement(calls[c].path_metrics),
                              ![c].i = Len(calls[c].trellis) - 1]
    /\ UNCHANGED <<codec_vars, pc, caller_vars, err_i, encode_vars, decode_vars>>

\* One iteration of the traceback loop (lines 164-167).
CallTracebackStep(c) ==
    /\ calls[c].pc = "Traceback"
    /\ calls[c].i >= 0
    /\ calls' = [calls EXCEPT
                    ![c].decoded = Append(@, ShiftRight(calls[c].state, constraint_ - 2)),
                    ![c].state = calls[c].trellis[calls[c].i + 1][@],
                    ![c].i = @ - 1]
    /\ UNCHANGED <<codec_vars, pc, caller_vars, err_i, encode_vars, decode_vars>>

\* std::reverse, return decoded (lines 168-169).
CallDecodeReturn(c) ==
    /\ calls[c].pc = "Traceback"
    /\ calls[c].i < 0
    /\ calls' = [calls EXCEPT ![c].pc = "Done", ![c].decoded = Reverse(@)]
    /\ UNCHANGED <<codec_vars, pc, caller_vars, err_i, encode_vars, decode_vars>>

NextConcurrent ==
    \/ Construct
    \/ \E c \in DOMAIN calls : CallEncode(c)
    \/ \E c \in DOMAIN calls : CallEncodeStep(c)
    \/ \E c \in DOMAIN calls : CallEncodeReturn(c)
    \/ \E c \in DOMAIN calls : CallDecode(c)
    \/ \E c \in DOMAIN calls : CallDecodeGroup(c)
    \/ \E c \in DOMAIN calls : CallTracebackStart(c)
    \/ \E c \in DOMAIN calls : CallTracebackStep(c)
    \/ \E c \in DOMAIN calls : CallDecodeReturn(c)

\* The calls the threads make on the codec of constraint 3 with polynomials
\* {7, 5}: Encode of messages, Decode of nothing, of whole groups, and of
\* sequences with a short final group.
ConcurrentCalls == {
    Call("Encode", <<0, 1>>),
    Call("Encode", <<1, 0, 1>>),
    Call("Decode", <<>>),
    Call("Decode", <<1, 1>>),
    Call("Decode", <<1, 1, 0, 1>>),
    Call("Decode", <<1, 0, 1>>) }

\* One to MaxCallers threads, each with one of the calls; the main caller
\* only constructs the codec.
InitConcurrent ==
    \E k \in 1..MaxCallers : \E cs \in [1..k -> ConcurrentCalls] :
        StartCalls(Scenario(Poly_7x5.constraint, Poly_7x5.polynomials, "Threads", <<>>, <<>>),
                   cs)

SpecConcurrent == InitConcurrent /\ [][NextConcurrent]_vars

----------------------------------------------------------------------------
(* Encode and Decode as functions of their argument, built from the same   *)
(* steps as the actions above.                                             *)

RECURSIVE EncodeFrom(_, _, _)
EncodeFrom(st, m, k) ==
    IF k > Len(m) THEN <<>>
    ELSE Output(st, m[k]) \o EncodeFrom(NextState(st, m[k]), m, k + 1)

EncodeOf(m) == EncodeFrom(0, m, 1)

\* The forward loop of Decode over a sequence of whole groups, from 0-based
\* position pos: the final metrics and the trellis.
RECURSIVE ForwardFrom(_, _, _, _)
ForwardFrom(b, pos, metrics, tr) ==
    IF pos >= Len(b) THEN [metrics |-> metrics, trellis |-> tr]
    ELSE LET u == UpdatePathMetrics(SubSeq(b, pos + 1, pos + num_parity_bits), metrics)
         IN  ForwardFrom(b, pos + num_parity_bits, u.metrics, Append(tr, u.column))

\* The traceback loop from column k down, already in chronological order.
RECURSIVE TracebackFrom(_, _, _)
TracebackFrom(tr, st, k) ==
    IF k = 0 THEN <<>>
    ELSE Append(TracebackFrom(tr, tr[k][st], k - 1), ShiftRight(st, constraint_ - 2))

\* Decode of a sequence of whole groups.
DecodeOf(b) ==
    LET f == ForwardFrom(b, 0, [s \in 0..(NumStates - 1) |-> IF s = 0 THEN 0 ELSE IntMax], <<>>)
    IN  TracebackFrom(f.trellis, MinElement(f.metrics), Len(f.trellis))

Constructed == pc \notin {"Construct", "Aborted"}

Returned == pc = "Done"

NumGroups(b) == (Len(b) + num_parity_bits - 1) \div num_parity_bits

Aligned(b) == Len(b) % num_parity_bits = 0

NoErrors == op = "Encode" /\ errors = <<>>

----------------------------------------------------------------------------
(* C1: Decode is maximum-likelihood.  When Decode returns on a received    *)
(* sequence of T whole groups, the result has T bits and no T-bit message  *)
(* encodes to something closer (in Hamming distance) to the received bits. *)

----------------------------------------------------------------------------
(* C2: round trip without channel errors.                                  *)

\* Some polynomial taps the current input bit (its bit 0 is set).
SomePolynomialOdd == \E j \in 1..Len(polynomials_) : polynomials_[j] % 2 = 1

\* C2 as claimed: for every accepted codec and every message, Decode of the
\* unaltered Encode(m), truncated to the message length, is m.
C2_RoundTripAnyPolynomials ==
    (Returned /\ NoErrors) => SubSeq(decoded, 1, Len(input)) = input

\* C2 as amended: the same, for codecs in which at least one polynomial is
\* odd (taps the current input bit).
C2_RoundTripOddPolynomial ==
    (Returned /\ NoErrors /\ SomePolynomialOdd) => SubSeq(decoded, 1, Len(input)) = input

\* A round trip of a full-length message ending in 1 returned.
C2_Witness ==
    /\ Returned
    /\ NoErrors
    /\ SomePolynomialOdd
    /\ Len(input) = MaxMessage
    /\ input[Len(input)] = 1
    /\ decoded = input

----------------------------------------------------------------------------
(* C7: Encode is the shift-register convolution.  Bit t*n + j of the      *)
(* encoded sequence is the XOR over d in 0..K-1 of (bit d of polynomial j  *)
(* AND m[t-d]), with m[i] = 0 for i < 0; the length is |m| * n.  It holds  *)
(* of the part encoded so far at every step of Encode and of the result.   *)

C7_EncodeIsConvolution ==
    LET BitOf(x, d) == (x \div (2 ^ d)) % 2
        \* m[k] for a 0-based k, 0 before the start of the message
        MessageBit(m, k) == IF k < 0 THEN 0 ELSE m[k + 1]
        ConvolutionBit(m, t, p) ==
            Cardinality({d \in 0..(constraint_ - 1) :
                            BitOf(p, d) = 1 /\ MessageBit(m, t - d) = 1}) % 2
    IN  (pc = "Encode" \/ (pc = "Channel" /\ err_i = 0)) =>
            /\ Len(encoded) = enc_i * num_parity_bits
            /\ pc = "Channel" => enc_i = Len(input)
            /\ \A t \in 0..(enc_i - 1) : \A j \in 0..(num_parity_bits - 1) :
                  encoded[t * num_parity_bits + j + 1] =
                      ConvolutionBit(input, t, polynomials_[j + 1])

\* Encode returned the encoding of a full-length message ending in 1.
C7_Witness ==
    /\ pc = "Channel"
    /\ err_i = 0
    /\ Len(input) = MaxMessage
    /\ input[Len(input)] = 1
    /\ Len(encoded) = MaxMessage * num_parity_bits

----------------------------------------------------------------------------
(* C9: construction validation.  Construction fails, and no call can       *)
(* follow, exactly when the polynomial list is empty or holds a polynomial *)
(* <= 0 or >= 2^K; otherwise the output table has 2^K entries, each of     *)
(* length equal to the polynomial count.                                   *)

C9_ConstructionValidation ==
    LET Rejected ==
            \/ polynomials_ = <<>>
            \/ \E j \in 1..Len(polynomials_) : polynomials_[j] <= 0
            \/ \E j \in 1..Len(polynomials_) : polynomials_[j] >= 2 ^ constraint_
    IN  pc # "Construct" =>
            /\ pc = "Aborted" <=> Rejected
            /\ pc = "Aborted" => (outputs_ = <<>> /\ ~ENABLED Next)
            /\ pc # "Aborted" =>
                  /\ DOMAIN outputs_ = 0..(2 ^ constraint_ - 1)
                  /\ \A idx \in DOMAIN outputs_ : Len(outputs_[idx]) = Len(polynomials_)

\* A construction was rejected only for a polynomial equal to 2^K.
C9_Witness ==
    /\ pc = "Aborted"
    /\ polynomials_ # <<>>
    /\ \A j \in 1..Len(polynomials_) : polynomials_[j] > 0
    /\ \E j \in 1..Len(polynomials_) : polynomials_[j] = 2 ^ constraint_

----------------------------------------------------------------------------
(* C6: Decode output length.                                               *)

\* C6 as claimed: for every received sequence, whole groups or not, Decode
\* never fails and returns ceil(|c| / n) bits, one per trellis column.
C6_DecodeLength ==
    /\ pc # "Crashed"
    /\ Returned =>
          /\ Len(decoded) = NumGroups(bits)
          /\ Len(decoded) = Len(trellis)

----------------------------------------------------------------------------
(* C8: a short final group is zero-padded.                                 *)

\* C8 as claimed: when |c| is no multiple of n, the last group handed to the
\* forward pass is the remaining bits of c followed by zeros, nothing outside
\* c is read, no error is raised, and Decode(c) = Decode(c padded with zeros).
C8_ShortGroupZeroPadded ==
    LET PaddedTo(b, n) == b \o Zeros((n - (Len(b) % n)) % n)
    IN
    /\ pc # "Crashed"
    /\ (pc \in {"Forward", "Traceback", "Done"} /\ i > Len(bits)) =>
          current_bits = SubSeq(bits, i - num_parity_bits + 1, Len(bits))
                             \o Zeros(i - Len(bits))
    /\ Returned => decoded = DecodeOf(PaddedTo(bits, num_parity_bits))

----------------------------------------------------------------------------
(* C4: single-error tolerance of the codec with constraint 3 and           *)
(* polynomials {7, 5}.                                                     *)

IsPoly75 == constraint_ = 3 /\ polynomials_ = <<7, 5>>

OneError == op = "Encode" /\ Len(errors) = 1

\* C4 as claimed: Decode of Encode(m) with any one bit flipped, the bits of
\* the last branch group included, is m.
C4_SingleErrorAnywhere ==
    (Returned /\ IsPoly75 /\ OneError) => decoded = input

\* What the code does tolerate: one flipped bit outside the last branch group.
SingleErrorBeforeLastGroup ==
    (Returned /\ IsPoly75 /\ OneError /\ errors[1] < Len(encoded) - num_parity_bits)
        => decoded = input

----------------------------------------------------------------------------
(* C3: for each codec TestViterbiCodecAutomatic is run on, Decode of the   *)
(* unaltered Encode(m) is m itself: the same bits and the same length,     *)
(* with nothing trimmed and no flush bits added.                           *)

IsAutomaticCodec ==
    [constraint |-> constraint_, polynomials |-> polynomials_] \in AutomaticCodecs

C3_TestCodecsRoundTrip ==
    (Returned /\ NoErrors /\ IsAutomaticCodec) =>
        /\ bits = encoded
        /\ Len(bits) = Len(input) * num_parity_bits
        /\ decoded = input

\* The LTE codec returned an 8-bit message ending in 1.
C3_Witness ==
    /\ Returned
    /\ NoErrors
    /\ constraint_ = LTE.constraint
    /\ polynomials_ = LTE.polynomials
    /\ Len(input) = 8
    /\ input[8] = 1
    /\ decoded = input

----------------------------------------------------------------------------
(* C5: decoding a flushed codeword.                                        *)

\* C5 as claimed: when the received sequence is the encoding of a message
\* followed by K-1 zero flush bits, with or without a few flipped bits,
\* Decode returns the message without the flush bits; and each received
\* string of the error tests decodes to the string the test expects.
C5_FlushBitsRemoved ==
    LET \* the message ends with the K-1 zero flush bits
        Flushed(m) ==
            /\ Len(m) >= constraint_ - 1
            /\ \A k \in (Len(m) - constraint_ + 2)..Len(m) : m[k] = 0
        WithoutFlush(m) == SubSeq(m, 1, Len(m) - (constraint_ - 1))
    IN
    Returned =>
        /\ (op = "Encode" /\ Flushed(input)) => decoded = WithoutFlush(input)
        /\ \A v \in DecodeVectors :
              (/\ op = "Decode"
               /\ constraint_ = v.codec.constraint
               /\ polynomials_ = v.codec.polynomials
               /\ bits = v.received) => decoded = v.expected

----------------------------------------------------------------------------
(* C10: the Voyager codec under channel errors.                            *)

IsVoyager == constraint_ = Voyager.constraint /\ polynomials_ = Voyager.polynomials

\* C10 as claimed: for every 32-bit message and every choice of 4 positions
\* of the 64 encoded bits, Decode of Encode(m) with the bits at those
\* positions flipped in turn is m.
C10_VoyagerFourErrors ==
    (/\ Returned
     /\ IsVoyager
     /\ op = "Encode"
     /\ Len(input) = VoyagerMessageBits
     /\ Len(errors) = VoyagerErrors) => decoded = input

----------------------------------------------------------------------------
(* C11: with constraint 3 and polynomials {7, 5}, Decode of the 30-bit     *)
(* string 001110000110011111100010110011 is 010111001010001, and so is     *)
(* Decode of that string with only the bit in its 21st position flipped    *)
(* (the 21st counted from 1, and also the 21st counted from 0).            *)

C11_Poly_7x5_Scenario ==
    (/\ Returned
     /\ IsPoly75
     /\ op = "Decode"
     /\ bits \in {Poly_7x5_Received,
                  FlippedAt(Poly_7x5_Received, 21),
                  FlippedAt(Poly_7x5_Received, 22)}) => decoded = Poly_7x5_Message

\* Decode returned on the string with its 21st bit flipped.
C11_Witness ==
    /\ Returned
    /\ IsPoly75
    /\ op = "Decode"
    /\ bits = FlippedAt(Poly_7x5_Received, 21)
    /\ bits # Poly_7x5_Received
    /\ Len(decoded) = 15

----------------------------------------------------------------------------
(* C12: calls do not interfere.                                            *)

\* What a Decode call running alone on b may consume: b itself, or for a
\* short final group b followed by what the out-of-range read yields.
AloneReads(b) ==
    IF Aligned(b) THEN {b}
    ELSE {b \o g : g \in [1..(num_parity_bits - (Len(b) % num_parity_bits)) -> Garbage]}

RECURSIVE EncoderState(_, _, _)
EncoderState(st, m, k) ==
    IF k > Len(m) THEN st ELSE EncoderState(NextState(st, m[k]), m, k + 1)

\* The locals of call r are those of a call running alone that consumes
\* one of the sequences in reads.
CallAsAlone(r, reads) ==
    /\ r.pc = "Encode" =>
          /\ r.encoded = EncodeOf(SubSeq(r.input, 1, r.i))
          /\ r.state = EncoderState(0, SubSeq(r.input, 1, r.i), 1)
    /\ (r.pc = "Done" /\ r.op = "Encode") => r.encoded = EncodeOf(r.input)
    /\ r.pc = "Forward" =>
          \E b \in reads :
              LET f == ForwardFrom(SubSeq(b, 1, r.i), 0,
                                   [s \in 0..(NumStates - 1) |-> IF s = 0 THEN 0 ELSE IntMax],
                                   <<>>)
              IN  r.path_metrics = f.metrics /\ r.trellis = f.trellis
    /\ r.pc = "Traceback" =>
          \E b \in reads :
              LET f == ForwardFrom(b, 0,
                                   [s \in 0..(NumStates - 1) |-> IF s = 0 THEN 0 ELSE IntMax],
                                   <<>>)
              IN  /\ r.path_metrics = f.metrics
                  /\ r.trellis = f.trellis
                  /\ Reverse(r.decoded) =
                        SubSeq(DecodeOf(b), r.i + 2, Len(r.trellis))
    /\ (r.pc = "Done" /\ r.op = "Decode") => \E b \in reads : r.decoded = DecodeOf(b)

\* After construction no step writes constraint_, polynomials_ or outputs_,
\* and a step changes the locals of one call only.
CallsIsolated ==
    /\ [][pc # "Construct" => UNCHANGED codec_vars]_vars
    /\ [][\A c \in DOMAIN calls :
            calls'[c] # calls[c] => \A d \in DOMAIN calls \ {c} : calls'[d] = calls[d]]_vars

\* C12 as claimed: with the steps of any number of Encode and Decode calls
\* on one constructed codec interleaved in any order, constraint_,
\* polynomials_ and outputs_ are never written after construction, a step
\* changes the locals (path metrics, trellis and the rest) of one call
\* only, and every call returns the one result a call running alone on the
\* same argument returns: Encode(m), or Decode of the received bits with a
\* short final group zero-padded.
C12_CallsDoNotInterfere ==
    /\ CallsIsolated
    /\ [](\A c \in DOMAIN calls :
            /\ calls[c].pc # "Crashed"
            /\ CallAsAlone(calls[c],
                           {calls[c].input \o Zeros(Len(b) - Len(calls[c].input)) :
                               b \in AloneReads(calls[c].input)}))

\* What holds of the code: the same, where a Decode call on a short final
\* group has what a lone call has that read the same bits behind its argument
\* (or it faults, as a lone call may).
CallsAsAloneUpToReads ==
    /\ CallsIsolated
    /\ [](\A c \in DOMAIN calls :
            /\ CallAsAlone(calls[c], AloneReads(calls[c].input))
            /\ calls[c].pc = "Crashed" =>
                  (calls[c].op = "Decode" /\ ~Aligned(calls[c].input)))

----------------------------------------------------------------------------
(* C13: forward-pass invariant.                                            *)

\* The bits of the groups handed to UpdatePathMetrics so far.
HandedBits ==
    IF i <= Len(bits) THEN SubSeq(bits, 1, i)
    ELSE SubSeq(bits, 1, i - num_parity_bits) \o current_bits

\* The received bits of the groups processed so far, a short final group
\* zero-padded.
PaddedBits ==
    IF i <= Len(bits) THEN SubSeq(bits, 1, i) ELSE bits \o Zeros(i - Len(bits))

Least(S) == CHOOSE x \in S : \A y \in S : x <= y

\* For every state, the least distance of the first t groups of received
\* from the output of a t-bit input sequence that drives the encoder from
\* state 0 to that state; IntMax if there is no such sequence.
BestDistancesTo(received, t) ==
    LET groups == SubSeq(received, 1, t * num_parity_bits)
        runs == {<<EncoderState(0, m, 1), HammingDistance(EncodeOf(m), groups)>> :
                    m \in [1..t -> {0, 1}]}
    IN  [s \in 0..(NumStates - 1) |->
            LET D == {r[2] : r \in {q \in runs : q[1] = s}}
            IN  IF D = {} THEN IntMax ELSE Least(D)]

BestDistances(t) == BestDistancesTo(HandedBits, t)

\* After t groups the path metrics are the least distances to received, and
\* each is the smaller of the two candidates formed from the least distances
\* of step t-1.
ForwardPassInvariant(received) ==
    pc = "Forward" =>
        LET t == Len(trellis)
            now == BestDistancesTo(received, t)
            before == BestDistancesTo(received, t - 1)
            group == SubSeq(received, (t - 1) * num_parity_bits + 1, t * num_parity_bits)
            Candidate(p, s) ==
                IF before[p] = IntMax THEN IntMax
                ELSE before[p] + HammingDistance(group, Output(p, s \div (2 ^ (constraint_ - 2))))
        IN  /\ t * num_parity_bits = i
            /\ \A s \in 0..(NumStates - 1) :
                  /\ path_metrics[s] = now[s]
                  /\ path_metrics[s] <= IntMax
                  /\ t >= 1 =>
                        LET s0 == 2 * (s % (2 ^ (constraint_ - 2)))
                        IN  path_metrics[s] = Least({Candidate(s0, s), Candidate(s0 + 1, s)})

\* C13 as claimed: after Decode has processed t branch groups, never
\* failing, the path metric of every state s is the least Hamming distance
\* between the first t received groups (a short final group zero-padded) and
\* the encoder output of a t-bit input sequence that drives the encoder from
\* state 0 to s, and it is the sentinel exactly when no such sequence
\* exists; and it is computed from the metrics of step t-1 only.
C13_ForwardPassInvariant ==
    /\ pc # "Crashed"
    /\ ForwardPassInvariant(PaddedBits)

\* What holds of the code: the same with respect to the groups handed to
\* UpdatePathMetrics, which for a short final group hold what was read
\* behind the received bits.
ForwardPassOnHandedGroups == ForwardPassInvariant(HandedBits)

----------------------------------------------------------------------------
(* C14: state bound.  For every accepted codec and every input, every      *)
(* state value stays in 0..2^(K-1)-1: the encoder state after each         *)
(* NextState, both predecessors computed for each target state, every      *)
(* predecessor stored in a trellis column, and the traceback state at      *)
(* every column; and every index Output reads the table at is in           *)
(* 0..2^K-1.                                                               *)

States == 0..(2 ^ (constraint_ - 1) - 1)

C14_StateBound ==
    Constructed =>
        /\ enc_state \in States
        /\ (pc = "Encode" /\ enc_i < Len(input)) =>
              /\ OutputIndex(enc_state, input[enc_i + 1]) \in 0..(2 ^ constraint_ - 1)
              /\ NextState(enc_state, input[enc_i + 1]) \in States
        /\ \A st \in States :
              /\ SourceStates(st)[1] \in States
              /\ SourceStates(st)[2] \in States
              /\ \A k \in 1..2 :
                    OutputIndex(SourceStates(st)[k], ShiftRight(st, constraint_ - 2))
                        \in 0..(2 ^ constraint_ - 1)
        /\ \A k \in 1..Len(trellis) :
              /\ DOMAIN trellis[k] = States
              /\ \A st \in States : trellis[k][st] \in SourceStates(st)[1]..SourceStates(st)[2]
              /\ \A st \in States : trellis[k][st] \in States
        /\ pc \in {"Forward", "Traceback", "Done"} => DOMAIN path_metrics = States
        /\ state \in States

\* A traceback is at the highest state after a message that left the encoder
\* in the highest state, with constraint at least 3.
C14_Witness ==
    /\ pc = "Traceback"
    /\ constraint_ >= 3
    /\ op = "Encode"
    /\ enc_state = 2 ^ (constraint_ - 1) - 1
    /\ state = 2 ^ (constraint_ - 1) - 1
    /\ tb_i >= 0
    /\ tb_i < Len(trellis) - 1

----------------------------------------------------------------------------
(* C15: path metrics over time.                                            *)

\* A step of the forward loop that processed one more group.
GroupProcessed == pc = "Forward" /\ pc' = "Forward" /\ Len(trellis') = Len(trellis) + 1

\* C15 as claimed: for every state s, the path metric of s after step t+1 is
\* at least its path metric after step t, unless it was the sentinel.
C15_PerStateNonDecreasing ==
    [][GroupProcessed =>
          \A s \in States : path_metrics[s] < IntMax => path_metrics'[s] >= path_metrics[s]]_vars

\* C15 as amended: the metric of s after step t+1 is at least the metric
\* after step t of the predecessor recorded for s (not of s itself), so the
\* least metric over all states never decreases; a state at the sentinel
\* has both predecessors at the sentinel, and a state once reached stays
\* reached.
C15_NonDecreasingAlongPaths ==
    [][GroupProcessed =>
          /\ \A s \in States :
                /\ path_metrics'[s] >= path_metrics[trellis'[Len(trellis')][s]]
                /\ path_metrics'[s] = IntMax <=>
                      (/\ path_metrics[SourceStates(s)[1]] = IntMax
                       /\ path_metrics[SourceStates(s)[2]] = IntMax)
                /\ path_metrics[s] < IntMax => path_metrics'[s] < IntMax
          /\ Least({path_metrics'[s] : s \in States})
                >= Least({path_metrics[s] : s \in States})]_vars

\* After four groups with constraint at least 3 every state is reached, the
\* least metric has risen above 0, and some state's metric is lower than it
\* was one step before.
C15_Witness ==
    /\ pc = "Forward"
    /\ constraint_ >= 3
    /\ Len(trellis) >= 4
    /\ \A s \in States : path_metrics[s] < IntMax /\ path_metrics[s] >= 1
    /\ \E s \in States : path_metrics[s] < BestDistances(Len(trellis) - 1)[s]

----------------------------------------------------------------------------
(* C16: the sentinel never wins.  At every step of the forward pass some   *)
(* state has a finite path metric and no metric exceeds the sentinel; a    *)
(* candidate formed from a predecessor at the sentinel is the sentinel     *)
(* itself (nothing is added to it), so a target whose predecessors are     *)
(* both at the sentinel gets exactly the sentinel and a target with one    *)
(* reached predecessor records that one; and when at least one group was   *)
(* processed, the state traceback starts from has a finite final metric.   *)

C16_SentinelNeverWins ==
    /\ [](pc \in {"Forward", "Traceback", "Done"} =>
            /\ \E s \in States : path_metrics[s] < IntMax
            /\ \A s \in States : path_metrics[s] >= 0 /\ path_metrics[s] <= IntMax)
    /\ [][GroupProcessed =>
            \A s \in States :
                LET p == trellis'[Len(trellis')][s]
                    s0 == SourceStates(s)[1]
                    s1 == SourceStates(s)[2]
                IN  /\ path_metrics[p] = IntMax => path_metrics'[s] = IntMax
                    /\ (path_metrics[s0] = IntMax /\ path_metrics[s1] = IntMax)
                          => (path_metrics'[s] = IntMax /\ p = s0)
                    /\ (path_metrics[s0] = IntMax /\ path_metrics[s1] < IntMax) => p = s1
                    /\ (path_metrics[s0] < IntMax /\ path_metrics[s1] = IntMax) => p = s0]_vars
    /\ []((pc = "Traceback" /\ tb_i = Len(trellis) - 1 /\ Len(trellis) >= 1) =>
            path_metrics[state] < IntMax)

\* Traceback starts after one or more groups while some state is still at
\* the sentinel, with constraint at least 3.
C16_Witness ==
    /\ pc = "Traceback"
    /\ tb_i = Len(trellis) - 1
    /\ Len(trellis) >= 1
    /\ constraint_ >= 3
    /\ \E s \in States : path_metrics[s] = IntMax
    /\ path_metrics[state] < IntMax

----------------------------------------------------------------------------
(* C17: forward-pass tie-break.  For every target state t at every step,   *)
(* with s0 = ((t & (2^(K-2) - 1)) << 1) and s1 = s0 | 1 and candidate(p)   *)
(* the metric of p after the previous step plus the branch metric from p   *)
(* to t (or the sentinel if p is at the sentinel): the recorded            *)
(* predecessor is s0 whenever candidate(s0) <= candidate(s1), both at the  *)
(* sentinel included, and s1 only when candidate(s1) < candidate(s0); the  *)
(* new metric of t is the smaller candidate.                               *)

\* The claim's s0 for target t, in arithmetic: the low K-2 bits of t, doubled.
EvenPredecessor(t) == 2 * (t % (2 ^ (constraint_ - 2)))

\* The claim's candidate for predecessor p of target t, from the metrics
\* prev of the previous step and the branch group.
CandidateOf(prev, group, p, t) ==
    IF prev[p] = IntMax THEN IntMax
    ELSE prev[p] + HammingDistance(group, Output(p, t \div (2 ^ (constraint_ - 2))))

C17_ForwardTieBreak ==
    [][GroupProcessed =>
          \A t \in States :
              LET s0 == EvenPredecessor(t)
                  s1 == s0 + 1
                  c0 == CandidateOf(path_metrics, current_bits', s0, t)
                  c1 == CandidateOf(path_metrics, current_bits', s1, t)
                  recorded == trellis'[Len(trellis')][t]
              IN  /\ <<s0, s1>> = SourceStates(t)
                  /\ c0 <= c1 => recorded = s0
                  /\ c1 < c0 => recorded = s1
                  /\ recorded \in {s0, s1}
                  /\ path_metrics'[t] = IF c0 <= c1 THEN c0 ELSE c1]_vars

\* A group was processed in which some target had two equal finite
\* candidates and recorded the even predecessor.
C17_Witness ==
    /\ pc = "Forward"
    /\ constraint_ >= 3
    /\ Len(trellis) >= 2
    /\ LET t == Len(trellis)
           prev == BestDistances(t - 1)
       IN  \E x \in States :
              /\ CandidateOf(prev, current_bits, EvenPredecessor(x), x) < IntMax
              /\ CandidateOf(prev, current_bits, EvenPredecessor(x), x)
                    = CandidateOf(prev, current_bits, EvenPredecessor(x) + 1, x)
              /\ trellis[t][x] = EvenPredecessor(x)

----------------------------------------------------------------------------
(* C18: traceback start.  After the forward pass, traceback starts from    *)
(* the lowest-indexed state among those whose final path metric is the     *)
(* minimum over all states; with no branch group it starts from state 0.   *)

\* Decode is at the head of its traceback loop and no column is consumed yet.
AtTracebackStart == pc = "Traceback" /\ tb_i = Len(trellis) - 1

C18_TracebackStart ==
    AtTracebackStart =>
        /\ \A s \in States : path_metrics[state] <= path_metrics[s]
        /\ \A s \in States : s < state => path_metrics[s] > path_metrics[state]
        /\ Len(trellis) = 0 => state = 0
        /\ decoded = <<>>

\* Traceback starts from a state other than 0 that shares the least final
\* metric with a higher state.
C18_Witness ==
    /\ AtTracebackStart
    /\ Len(trellis) >= 2
    /\ state > 0
    /\ \E s \in States : s > state /\ path_metrics[s] = path_metrics[state]

----------------------------------------------------------------------------
(* C19: traceback follows a real encoder path.                             *)

\* With at least one group: every state the traceback visits has a finite
\* least distance to received at its time step; each step from a visited
\* state t to its recorded predecessor p has NextState(p, t >> (K-2)) = t;
\* with every column consumed the state is 0; the encoder fed Decode's result
\* from state 0 ends in the state traceback started from, and the distance
\* between that encoding and received is that state's final path metric.
TracebackFollowsEncoderPath(received) ==
    LET start == MinElement(path_metrics)
        k == tb_i + 1       \* columns not yet consumed: the time step of state
    IN  /\ (pc = "Traceback" /\ Len(trellis) >= 1) =>
              /\ BestDistancesTo(received, k)[state] < IntMax
              /\ k >= 1 =>
                    NextState(trellis[k][state], state \div (2 ^ (constraint_ - 2))) = state
              /\ k = 0 => state = 0
              /\ Len(decoded) = Len(trellis) - k
              /\ EncoderState(state, Reverse(decoded), 1) = start
        /\ (pc = "Done" /\ Len(trellis) >= 1) =>
              /\ state = 0
              /\ EncoderState(0, decoded, 1) = start
              /\ HammingDistance(EncodeOf(decoded), received) = path_metrics[start]
              /\ path_metrics[start] < IntMax

\* C19 as claimed: for every received sequence with at least one branch
\* group Decode reaches and completes its traceback, the traceback follows
\* a real encoder path, and the Hamming distance between the encoding of
\* the result and the received bits, a short final group zero-padded, is the
\* final path metric of the state traceback started from.
C19_TracebackFollowsEncoderPath ==
    /\ pc # "Crashed"
    /\ TracebackFollowsEncoderPath(PaddedBits)

\* What holds of the code: the same with respect to the groups handed to
\* the forward pass.
TracebackOnHandedGroups == TracebackFollowsEncoderPath(HandedBits)

----------------------------------------------------------------------------
(* C20: the assertions of the branch-metric helpers.                       *)

\* The assertions one call BranchMetric(b, source_state, target_state)
\* evaluates: its own (lines 96-97) and HammingDistance's (line 19).
BranchMetricAsserts(b, source_state, target_state) ==
    /\ Len(b) = num_parity_bits
    /\ BitAnd(target_state, ShiftLeft(1, constraint_ - 2) - 1) = ShiftRight(source_state, 1)
    /\ Len(b) = Len(Output(source_state, ShiftRight(target_state, constraint_ - 2)))

\* The source states PathMetric called BranchMetric with for target state t,
\* given the predecessor p it recorded: p and the state that differs from it
\* in the lowest bit (lines 109-110), each only when its previous metric is
\* not the sentinel (lines 113, 117).
BranchMetricSources(prev, p) ==
    {src \in {p - (p % 2), p - (p % 2) + 1} : prev[src] < IntMax}

\* C20: for every valid codec with K >= 2 and every received sequence, a
\* short final group included, each call of BranchMetric a forward step of
\* Decode makes satisfies the assertions: the branch bits have length
\* num_parity_bits, the two sequences HammingDistance compares have equal
\* length, and (target_state & (2^(K-2) - 1)) = source_state >> 1.
C20_BranchMetricAssertions ==
    [][(GroupProcessed /\ constraint_ >= 2) =>
          \A t \in DOMAIN path_metrics :
              \A src \in BranchMetricSources(path_metrics, trellis'[Len(trellis')][t]) :
                  BranchMetricAsserts(current_bits', src, t)]_vars

\* C20 witness: a short final group has been processed by a codec with
\* K >= 3, and BranchMetric was called for both predecessors of state 1.
C20_Witness ==
    /\ pc = "Forward"
    /\ constraint_ >= 3
    /\ i > Len(bits)
    /\ Len(trellis) >= 2
    /\ Len(current_bits) = num_parity_bits
    /\ \A src \in {2, 3} : BestDistancesTo(HandedBits, Len(trellis) - 1)[src] < IntMax

====
